---- MODULE Spec2Model ----
(***************************************************************************)
(* pdb_viewer: page-indirected stream reconstruction of a PDB 2.00         *)
(* container (src/pdb_viewer.cpp, with the earlier C edition in            *)
(* src/pdb_viewer.c).  The model follows main -> pdb_file_t ->             *)
(* extract_pdb -> validate_header -> open_root_stream -> read_stream and   *)
(* the per-index decoders, one action per call or loop iteration.          *)
(*                                                                         *)
(* A file is a record: its size on disk, and what the bytes at the places  *)
(* the program reads decode to.  A read of n bytes at offset o succeeds    *)
(* iff n > 0 and o + n <= st_size (fread(ptr, n, 1, f) on a regular file). *)
(* Seeks to non-negative offsets and allocations are taken to succeed.     *)
(***************************************************************************)
EXTENDS Integers, Sequences, FiniteSets, TLC

\* ---------------------------------------------------------------- bounds
MaxStreams == 8        \* largest stream count of a generated directory
MaxFilePages == 8      \* file_pages of the generated well-formed files

\* ------------------------------------------------------ program constants
PDB_SIGNATURE_200_SIZE == 44
SizeofHeader == 16
SizeofStream == 8
OffsetofStreams == 4
SizeofStreamHeader == 12
SizeofStreamHeaderEx == 28
SizeofTpiHeader == 20
SizeofDbiHeader == 22
SizeofOldDbiHeader == 6

type_root_t == 0
type_pdb_header_t == 1
type_tpi == 2
type_dbi == 3
type_fpo == 5

pdb_version_2 == 19941610
pdb_version_4 == 19950623
pdb_version_41 == 19950814
pdb_version_5 == 19960307
pdb_version_6 == 19970604
pdb_version_7p == 19990604
pdb_version_7 == 20000404

dbi_version_41 == 930803
dbi_version_5 == 19960307
dbi_version_6 == 19970606
dbi_version_7 == 19990903

tpi_version_6 == 19961031

Two16 == 65536
AllOnes16 == 65535

U16(x) == x % Two16

\* A uint32_t word is held as the two's-complement integer with the same 32
\* bits (the tool's integers are 32 bits wide): words below 2^31 are
\* themselves, the word w >= 2^31 is w - 2^32, so 0xFFFFFFFF is -1 as the
\* source writes it.  Sums and differences are then already modulo 2^32;
\* order and division are unsigned and are defined here.
AllOnes32 == -1

\* the word a uint32_t sum or difference wraps to: in this representation
\* the two's-complement integer itself
U32(x) == x

\* a < b, a > b on uint32_t
Below(a, b) == IF (a < 0) = (b < 0) THEN a < b ELSE b < 0
Above(a, b) == Below(b, a)

\* a / page_size on uint32_t, page_size a power of two that divides 2^16
DivPage(a, page_size) ==
    IF a >= 0 THEN a \div page_size
    ELSE a \div page_size + (Two16 \div page_size) * Two16

\* a min that returns the larger of the two
min_Larger(a, b) == IF Above(a, b) THEN a ELSE b

min(a, b) == IF Above(a, b) THEN b ELSE a

\* ------------------------------------------------------------ file reads
\* fread(ptr, n, 1, f) at offset o returns 1 iff the n bytes exist and n > 0
ReadOk(f, o, n) == n > 0 /\ o >= 0 /\ o + n <= f.st_size

\* k-th (0-based) slot of the root indirection list stored after the header
RootSlotOffset(k) == PDB_SIGNATURE_200_SIZE + SizeofHeader + 2 * k
RootSlot(f, k) == IF k < Len(f.rootList) THEN f.rootList[k + 1] ELSE f.rootFill

\* declared size of directory entry e (0-based) of the reconstructed root
StreamSize(f, e) == IF e < Len(f.sizes) THEN f.sizes[e + 1] ELSE 0

\* k-th (0-based) entry of the flat page-index run that follows the descriptors
PlistEntry(f, k) == IF k < Len(f.plist) THEN f.plist[k + 1] ELSE f.plFill

\* --------------------------------------------------------- validate_header
\* a page-count check without the cast to uint16_t
PageCountOk_Wide(st_size, page_size, file_pages) ==
    st_size \div page_size = file_pages

\* (uint16_t)(buf.st_size / _header.page_size) != _header.file_pages
PageCountOk(st_size, page_size, file_pages) ==
    U16(st_size \div page_size) = file_pages

PageSizeOk(page_size) == page_size \in {1024, 2048, 4096}

StartPageOk(start_page) == start_page \in {9, 5, 2}

\* the checks of validate_header in program order; each returns -1 at once
HeaderChecks(f) ==
    << [bad |-> ~ReadOk(f, 0, PDB_SIGNATURE_200_SIZE), m |-> "FailedReadSignature"],
       [bad |-> ~f.sigOk, m |-> "InvalidSignature"],
       [bad |-> ~ReadOk(f, PDB_SIGNATURE_200_SIZE, SizeofHeader), m |-> "FailedReadHeader"],
       [bad |-> ~PageSizeOk(f.page_size), m |-> "InvalidPageSize"],
       [bad |-> ~StartPageOk(f.start_page), m |-> "InvalidStartPage"],
       [bad |-> ~PageCountOk(f.st_size, f.page_size, f.file_pages),
        m |-> "InvalidNumberOfPages"],
       [bad |-> f.root_size = AllOnes32, m |-> "RootStreamFree"] >>

\* a validation that goes on after a failed check and reports the last one
FirstFailing_Last(checks) ==
    LET failing == {i \in 1..Len(checks) : checks[i].bad}
    IN  IF failing = {} THEN 0
        ELSE CHOOSE i \in failing : \A j \in failing : i >= j

\* index of the first failing check, 0 when every check passes
FirstFailing(checks) ==
    LET failing == {i \in 1..Len(checks) : checks[i].bad}
    IN  IF failing = {} THEN 0
        ELSE CHOOSE i \in failing : \A j \in failing : i <= j

\* the second fread has filled _header once the first three checks passed
HeaderRead(f) == \A i \in 1..3 : ~HeaderChecks(f)[i].bad

\* -------------------------------------------------- page counts and copies
\* root_pages = (root_size / _header.page_size) + 1
RootPages(root_size, page_size) == U32(DivPage(root_size, page_size) + 1)

\* a page count that forgets the free sentinel
StreamPages_NoSentinel(stream_size, page_size) ==
    IF stream_size = 0 THEN 0
    ELSE U32(DivPage(stream_size, page_size) + 1)

\* pages = stream_size / page_size + 1; 0 for an empty or free stream
StreamPages(stream_size, page_size) ==
    IF stream_size = 0 \/ stream_size = AllOnes32 THEN 0
    ELSE U32(DivPage(stream_size, page_size) + 1)

\* a bound check that also rejects the page at file_pages
PageBeyond_Exclusive(p, file_pages) == p >= file_pages

\* if (page > _header.file_pages) ... beyond maximum page
PageBeyond(p, file_pages) == p > file_pages

\* a copy that always takes a whole page
ToRead_WholePage(page_size, remaining) == page_size

\* to_read = min(_header.page_size, remaining)
ToRead(page_size, remaining) == min(page_size, remaining)

\* page_position = page * _header.page_size
PagePosition(p, page_size) == U32(p * page_size)

\* offsetof(pdb_root_t, streams) + count * sizeof(pdb_stream_t) > stream_size
CountTooLarge(count, root_size) ==
    Above(OffsetofStreams + count * SizeofStream, root_size)

\* is entry k of the flat page-index run inside the root buffer ?
PlistInside(count, k, root_size) ==
    ~Above(OffsetofStreams + count * SizeofStream + 2 * (k + 1), root_size)

\* ---------------------------------------------------------------- decoders
Msg(m, a) == [m |-> m, a |-> a]

\* index 0: the root copy, a size self-check only
read_stream_root_t(stream_size, hdr_root_size) ==
    IF stream_size # hdr_root_size THEN << Msg("MismatchRootCopy", 0) >> ELSE << >>

\* the switch over pdb_header->header.version
PdbRelease(version) ==
    CASE version = pdb_version_2 -> Msg("PdbVisualC20", 0)
      [] version \in {pdb_version_4, pdb_version_41} -> Msg("PdbVisualC40", 0)
      [] version = pdb_version_5 -> Msg("PdbVisualC50", 0)
      [] version = pdb_version_6 -> Msg("PdbVisualC60", 0)
      [] version \in {pdb_version_7p, pdb_version_7} -> Msg("PdbVisualC70", 0)
      [] OTHER -> Msg("PdbUnknownRelease", version)

\* an info-header decoder that prints the release and records nothing
read_stream_pdb_header_t_NoRecord(stream_size, c, ver) ==
    IF Below(stream_size, SizeofStreamHeader)
    THEN [out |-> << Msg("PdbHeaderTooSmall", 0) >>, ver |-> ver]
    ELSE [out |-> << PdbRelease(c.version) >>, ver |-> ver]

\* index 1: the info header; records the epoch in _pdb_version
read_stream_pdb_header_t(stream_size, c, ver) ==
    IF Below(stream_size, SizeofStreamHeader)
    THEN [out |-> << Msg("PdbHeaderTooSmall", 0) >>, ver |-> ver]
    ELSE [out |-> << PdbRelease(c.version) >> \o
                  (IF Above(c.version, pdb_version_7p)
                   THEN IF Below(stream_size, SizeofStreamHeaderEx)
                        THEN << Msg("PdbHeaderExTooSmall", 0) >>
                        ELSE << Msg("PdbId", c.age) >>
                   ELSE << >>),
          ver |-> c.version]

\* index 2: the type-info header
read_stream_tpi(stream_size, c) ==
    IF Below(stream_size, SizeofTpiHeader) THEN << Msg("TpiTooSmall", 0) >>
    ELSE << (IF c.version = tpi_version_6 THEN Msg("TpiVisualC60", 0)
                                          ELSE Msg("TpiUnknownRelease", c.version)) >> \o
         (IF c.size = 0
          THEN IF c.min_ti # c.max_ti THEN << Msg("TpiCorruptedHeader", 0) >>
                                      ELSE << Msg("TpiNoTypes", 0) >>
          ELSE << Msg("TpiMin", c.min_ti), Msg("TpiMax", c.max_ti) >> \o
               (IF Above(c.size + SizeofTpiHeader, stream_size)
                THEN << Msg("TpiNotBigEnough", 0) >> ELSE << >>))

\* the switch over dbi_header->version
DbiRelease(version) ==
    CASE version = dbi_version_41 -> Msg("DbiVisualC40", 0)
      [] version = dbi_version_5 -> Msg("DbiVisualC50", 0)
      [] version = dbi_version_6 -> Msg("DbiVisualC60", 0)
      [] version = dbi_version_7 -> Msg("DbiVisualC70", 0)
      [] OTHER -> Msg("DbiUnknownRelease", version)

\* a decoder that takes the old layout for the earliest epoch only
DbiNewLayout_AfterEarliest(ver) == Above(ver, pdb_version_2)

\* if (_pdb_version > pdb_version_4): the new dbi_header_t, else old_dbi_header_t
DbiNewLayout(ver) == Above(ver, pdb_version_4)

\* old_dbi_header_t overlays the first six bytes of the stream: the two
\* halves of the little-endian word that the new layout calls signature, then
\* the low half of the word it calls version
OldDbiView(c) == [global_symbols_stream |-> c.signature % Two16,
                  private_symbols_stream |-> U16(c.signature \div Two16),
                  symbols_stream |-> c.version % Two16]

\* a decoder that takes any signature
DbiSignatureOk_Any(signature) == TRUE

\* if (dbi_header->signature != 0xFFFFFFFF) ... Invalid signature
DbiSignatureOk(signature) == signature = AllOnes32

\* index 3: the debug-info header; sets the three symbol-stream indices
read_stream_dbi(stream_size, c, ver, gs, ps, sym) ==
    LET keep == [gs |-> gs, ps |-> ps, sym |-> sym]
    IN  IF DbiNewLayout(ver)
        THEN IF Below(stream_size, SizeofDbiHeader)
             THEN [out |-> << Msg("DbiTooSmall", 0) >>, layout |-> "new"] @@ keep
             ELSE IF ~DbiSignatureOk(c.signature)
             THEN [out |-> << Msg("DbiInvalidSignature", c.signature) >>, layout |-> "new"] @@ keep
             ELSE [out |-> << DbiRelease(c.version) >>, layout |-> "new",
                   gs |-> c.global_symbols_stream,
                   ps |-> c.private_symbols_stream,
                   sym |-> c.symbols_stream]
        ELSE IF Below(stream_size, SizeofOldDbiHeader)
             THEN [out |-> << Msg("DbiTooSmall", 0) >>, layout |-> "old"] @@ keep
             ELSE [out |-> << >>, layout |-> "old",
                   gs |-> OldDbiView(c).global_symbols_stream,
                   ps |-> OldDbiView(c).private_symbols_stream,
                   sym |-> OldDbiView(c).symbols_stream]

\* index 5
read_stream_fpo == << Msg("FpoFound", 0) >>

\* default case of the switch in read_stream
SymbolRole(stream_index, count, gs, ps, sym) ==
    IF gs < count /\ gs > type_fpo /\ stream_index = gs
    THEN << Msg("GlobalSymbolsFound", 0) >>
    ELSE IF ps < count /\ ps > type_fpo /\ stream_index = ps
    THEN << Msg("PrivateSymbolsFound", 0) >>
    ELSE IF sym < count /\ sym > type_fpo /\ stream_index = sym
    THEN << Msg("SymbolsFound", 0) >>
    ELSE << >>

\* ------------------------------------------------------------- input files
\* bytes taken by a directory of count descriptors and n page indices
DirBytes(count, n) == OffsetofStreams + count * SizeofStream + 2 * n

S1Default == [version |-> pdb_version_7, age |-> 1]
S2Default == [version |-> tpi_version_6, min_ti |-> 4096, max_ti |-> 4100, size |-> 0]
S3Default == [signature |-> AllOnes32, version |-> dbi_version_7,
              global_symbols_stream |-> 6, private_symbols_stream |-> 7,
              symbols_stream |-> AllOnes16]

MkFile(ps, tail, rs, rl, cnt, szs, pl, c1, c3) ==
    [exists |-> TRUE, st_size |-> MaxFilePages * ps + tail, sigOk |-> TRUE,
     page_size |-> ps, start_page |-> 2, file_pages |-> MaxFilePages,
     root_size |-> rs, rootList |-> rl, rootFill |-> 1,
     count |-> cnt, sizes |-> szs, plist |-> pl, plFill |-> 1,
     s1 |-> c1, s2 |-> S2Default, s3 |-> c3]

Base == MkFile(1024, 10, DirBytes(2, 2), << 2 >>, 2, << 10, 20 >>, << 3, 4 >>,
               S1Default, S3Default)

NoFile == [Base EXCEPT !.exists = FALSE]

\* headers: every combination of the fields validate_header looks at
HeaderFiles ==
    { [Base EXCEPT !.sigOk = so, !.page_size = ps, !.start_page = sp,
                   !.st_size = sz, !.file_pages = fp, !.root_size = rs] :
        so \in BOOLEAN, ps \in {512, 1024, 2048, 4096}, sp \in {2, 9, 3},
        sz \in {30, 50, 60, MaxFilePages * 1024, MaxFilePages * 1024 + 10,
                (Two16 + MaxFilePages) * 1024},
        fp \in {0, 4, MaxFilePages}, rs \in {AllOnes32, DirBytes(2, 2)} }

\* root streams: declared size, indirection list and stream count
RootFiles ==
    { MkFile(ps, tail, rs, rl, cnt, << 10, 20 >>, << 3, 4 >>, S1Default, S3Default) :
        ps \in {1024, 4096}, tail \in {0, 30},
        rs \in {0, 1, 3, 19, 24, 1024, 1030, 4096, 4100},
        rl \in { << 2 >>, << MaxFilePages >>, << MaxFilePages + 1 >>, << 2, 2 >>,
                 << 2, MaxFilePages >>, << 2, MaxFilePages + 1 >> },
        cnt \in {0, 2, 3, AllOnes16} }

\* two-stream directories: declared sizes around the page size, one page
\* index possibly at or beyond file_pages, the run possibly one entry short
StreamSizes == {0, 10, 1024, 2048, 4096, 4097, AllOnes32}

\* page indices the writer of a container stores for a stream of this size
Slots(size, ps) == IF size \in {0, AllOnes32} THEN 0 ELSE size \div ps + 1

StreamFiles ==
    UNION { LET need == Slots(a, ps) + Slots(b, ps)
            IN  { MkFile(ps, tail, DirBytes(2, need - short), << 2 >>, 2, << a, b >>,
                         [k \in 1..need |-> IF k = pos THEN val ELSE 3],
                         S1Default, S3Default) :
                    pos \in {0, 1, 2, need} \ {x \in {1, 2} : x > need},
                    val \in {MaxFilePages, MaxFilePages + 1},
                    short \in {x \in {0, 1} : x <= need},
                    tail \in {0, 10} } :
            ps \in {1024, 2048, 4096}, a \in {0, 10, 1024, AllOnes32}, b \in StreamSizes }

\* directories with an info header (index 1), a debug-info header (index 3)
\* and streams past index 5 that the symbol-stream indices may name
S1Choices ==
    { [size |-> 0, c |-> S1Default], [size |-> 10, c |-> S1Default],
      [size |-> 12, c |-> S1Default] } \cup
    { [size |-> 28, c |-> [version |-> v, age |-> 1]] :
        v \in {pdb_version_2, pdb_version_4, pdb_version_41, pdb_version_7, 12345} }

S3Choices ==
    { [size |-> sz, c |-> [signature |-> sg, version |-> t[1],
                           global_symbols_stream |-> t[2],
                           private_symbols_stream |-> t[3],
                           symbols_stream |-> t[4]]] :
        sz \in {0, 4, 6, 22, 1024},
        sg \in {0, AllOnes32, 7 * Two16 + 6},
        t \in { << dbi_version_41, 6, 7, AllOnes16 >>, << 7, 7, 6, 6 >> } }

DbiSizes(cnt, a, b) ==
    [k \in 1..cnt |-> CASE k = 1 -> DirBytes(cnt, cnt + 1)
                        [] k = 2 -> a
                        [] k = 3 -> 20
                        [] k = 4 -> b
                        [] k = 5 -> 0
                        [] OTHER -> 10]

DbiFiles ==
    { MkFile(1024, 10, DirBytes(cnt, cnt + 1), << 2 >>, cnt,
             DbiSizes(cnt, x.size, y.size), [k \in 1..(cnt + 1) |-> 3], x.c, y.c) :
        cnt \in {4, MaxStreams}, x \in S1Choices, y \in S3Choices }

\* type-info headers
TpiFiles ==
    { [MkFile(1024, 10, DirBytes(3, 3), << 2 >>, 3, << 10, 28, sz >>, << 3, 3, 3 >>,
              S1Default, S3Default) EXCEPT !.s2 = c] :
        sz \in {10, 20, 40},
        c \in { [version |-> v, min_ti |-> 4096, max_ti |-> mx, size |-> n] :
                  v \in {tpi_version_6, 1}, mx \in {4096, 4100}, n \in {0, 10, 30} } }

\* directories where one stream, or every stream, is empty or free
HoleFiles ==
    { MkFile(1024, 10, DirBytes(MaxStreams, MaxStreams), << 2 >>, MaxStreams,
             [k \in 1..MaxStreams |-> IF hole \in {0, k} THEN z ELSE 10],
             [k \in 1..MaxStreams |-> 3], S1Default, S3Default) :
        hole \in 0..MaxStreams, z \in {0, AllOnes32} }

Files == {NoFile} \cup HeaderFiles \cup RootFiles \cup StreamFiles \cup DbiFiles
                  \cup TpiFiles \cup HoleFiles

\* the file processed between the two runs of the file under study
Intruders ==
    { NoFile,
      [Base EXCEPT !.sigOk = FALSE],
      MkFile(1024, 10, 1024, << 2 >>, 2, << 10, 20 >>, << 3, 4 >>, S1Default, S3Default),
      MkFile(1024, 10, DirBytes(MaxStreams, MaxStreams + 1), << 2 >>, MaxStreams,
             DbiSizes(MaxStreams, 28, 22), [k \in 1..(MaxStreams + 1) |-> 3],
             S1Default, S3Default) }

\* what a stream buffer filled from a page index read outside the root
\* buffer may decode to
AnyS1 == { x.c : x \in S1Choices }
AnyS3 == { y.c : y \in S3Choices }
AnyPage == {1, MaxFilePages, MaxFilePages + 1}

\* -------------------------------------------------------------------- state
VARIABLES
    edition,        \* "cpp": pdb_viewer.cpp, "c": pdb_viewer.c
    argv,           \* the file arguments of main
    idx,            \* main's loop variable (1-based)
    pc,             \* position of the program
    header,         \* _header
    file_open,      \* _pdb_stream != 0
    root_alloc,     \* _root_stream != 0
    root_count,     \* _root_stream->count
    pdb_version,    \* _pdb_version
    gs_stream,      \* _gs_stream
    ps_stream,      \* _ps_stream
    sym_stream,     \* _sym_stream
    root_size,      \* open_root_stream: bytes of the root still to copy
    root_pages,     \* open_root_stream: number of indirection slots
    page,           \* loop variable of the page loops
    entry,          \* extract_pdb: directory loop variable
    total_pages,    \* extract_pdb: page indices consumed so far
    pages,          \* read_stream: pages of the current stream
    stream_size,    \* read_stream: bytes of the stream still to copy
    out,            \* the diagnostics printed for each file argument
    copied,         \* bytes copied into the buffer being filled
    lastCopy,       \* the last copy: offset, length, size of the buffer
    tainted,        \* a page index of the stream was read outside the root buffer
    trace           \* what happened to each directory entry

vars == << edition, argv, idx, pc, header, file_open, root_alloc, root_count,
           pdb_version, gs_stream, ps_stream, sym_stream, root_size, root_pages,
           page, entry, total_pages, pages, stream_size, out, copied, lastCopy,
           tainted, trace >>

identity == << pdb_version, gs_stream, ps_stream, sym_stream >>
rootLocals == << root_size, root_pages >>
dirLocals == << entry, total_pages >>
streamLocals == << pages, stream_size >>
ghosts == << copied, lastCopy, tainted, trace >>

HeaderUninit == [page_size |-> -1, start_page |-> -1, file_pages |-> -1, root_size |-> -1]
NoCopy == [off |-> 0, len |-> 0, cap |-> 0]

File == argv[idx]
Say(lines) == [out EXCEPT ![idx] = @ \o lines]

\* where a function that gives up on the file returns to
GiveUp == IF edition = "cpp" THEN "destroy" ELSE "leave"

Init ==
    /\ edition \in {"cpp", "c"}
    /\ \E f \in Files, g \in Intruders : argv = << f, g, f >>
    /\ idx = 1
    /\ pc = "main"
    /\ header = HeaderUninit
    /\ file_open = FALSE
    /\ root_alloc = FALSE
    /\ root_count = 0
    /\ pdb_version = 0
    /\ gs_stream = 0
    /\ ps_stream = 0
    /\ sym_stream = 0
    /\ root_size = 0
    /\ root_pages = 0
    /\ page = 0
    /\ entry = 0
    /\ total_pages = 0
    /\ pages = 0
    /\ stream_size = 0
    /\ out = [i \in 1..3 |-> << >>]
    /\ copied = 0
    /\ lastCopy = NoCopy
    /\ tainted = FALSE
    /\ trace = << >>

\* ------------------------------------------------------------------ actions
\* no function of the session has run yet: its locals, the root buffer and
\* the bookkeeping of the copies hold nothing
NoLocals ==
    /\ root_count' = 0
    /\ root_size' = 0
    /\ root_pages' = 0
    /\ page' = 0
    /\ entry' = 0
    /\ total_pages' = 0
    /\ pages' = 0
    /\ stream_size' = 0
    /\ copied' = 0
    /\ lastCopy' = NoCopy
    /\ tainted' = FALSE

\* pdb_file_t::pdb_file_t: a fresh session object for argv[idx]
\* a field the constructor forgets: it keeps what the memory held
CtorIndex_Keep(old) == old

\* _pdb_version = pdb_version_2
CtorVersion(old) == pdb_version_2

\* _gs_stream = -1; _ps_stream = -1; _sym_stream = -1 (uint16_t)
CtorIndex(old) == U16(-1)

Construct ==
    /\ edition = "cpp" /\ pc = "main" /\ idx <= Len(argv)
    /\ file_open' = FALSE
    /\ root_alloc' = FALSE
    /\ pdb_version' = CtorVersion(pdb_version)
    /\ gs_stream' = CtorIndex(gs_stream)
    /\ ps_stream' = CtorIndex(ps_stream)
    /\ sym_stream' = CtorIndex(sym_stream)
    /\ header' = HeaderUninit
    /\ NoLocals
    /\ pc' = "extract"
    /\ UNCHANGED << edition, argv, idx, out, trace >>

\* extract_pdb, up to the fopen
ExtractOpen ==
    /\ \/ edition = "cpp" /\ pc = "extract"
       \/ edition = "c" /\ pc = "main" /\ idx <= Len(argv)
    /\ IF File.exists
       THEN /\ file_open' = TRUE
            /\ pc' = "validate"
            /\ out' = out
       ELSE /\ file_open' = FALSE
            /\ out' = Say(<< Msg("CannotOpen", 0) >>)
            /\ pc' = IF edition = "cpp" THEN "destroy" ELSE "main"
    /\ idx' = IF ~File.exists /\ edition = "c" THEN idx + 1 ELSE idx
    /\ header' = IF edition = "c" THEN HeaderUninit ELSE header
    /\ root_alloc' = IF edition = "c" THEN FALSE ELSE root_alloc
    /\ IF edition = "c" THEN NoLocals
       ELSE UNCHANGED << root_count, rootLocals, page, dirLocals, streamLocals,
                         copied, lastCopy, tainted >>
    /\ UNCHANGED << edition, argv, identity, trace >>

\* validate_header: the first failing check prints its diagnostic and
\* returns -1, which makes extract_pdb give up on the file
ValidateHeader ==
    /\ pc = "validate"
    /\ LET r == FirstFailing(HeaderChecks(File))
       IN  /\ header' = IF HeaderRead(File)
                        THEN [page_size |-> File.page_size,
                              start_page |-> File.start_page,
                              file_pages |-> File.file_pages,
                              root_size |-> File.root_size]
                        ELSE header
           /\ out' = IF r = 0 THEN out ELSE Say(<< Msg(HeaderChecks(File)[r].m, 0) >>)
           /\ pc' = IF r = 0 THEN "root" ELSE GiveUp
    /\ UNCHANGED << edition, argv, idx, file_open, root_alloc, root_count, identity,
                    rootLocals, page, dirLocals, streamLocals, ghosts >>

\* open_root_stream, up to the allocation of the root buffer
RootBegin ==
    /\ pc = "root"
    /\ LET rs == header.root_size
           rp == RootPages(rs, header.page_size)
       IN  IF rs = 0 \/ rp = 0
           THEN /\ out' = Say(<< Msg("InvalidRootPages", 0) >>)
                /\ pc' = GiveUp
                /\ UNCHANGED << root_alloc, rootLocals, page, copied, lastCopy >>
           ELSE /\ root_size' = rs
                /\ root_pages' = rp
                /\ root_alloc' = TRUE
                /\ page' = 0
                /\ copied' = 0
                /\ lastCopy' = NoCopy
                /\ pc' = "root_loop"
                /\ out' = out
    /\ UNCHANGED << edition, argv, idx, header, file_open, root_count, identity,
                    dirLocals, streamLocals, tainted, trace >>

\* the C edition frees the root buffer on every error path of open_root_stream
RootFail(lines) ==
    /\ out' = Say(lines)
    /\ pc' = GiveUp
    /\ root_alloc' = IF edition = "c" THEN FALSE ELSE root_alloc
    /\ UNCHANGED << rootLocals, page, copied, lastCopy >>

\* one iteration of the loop over the root indirection slots
RootPage ==
    /\ pc = "root_loop" /\ Below(page, root_pages)
    /\ LET root_page == RootSlot(File, page)
           to_read == ToRead(header.page_size, root_size)
       IN  IF ~ReadOk(File, RootSlotOffset(page), 2)
           THEN RootFail(<< Msg("FailedReadRootSlot", page) >>)
           ELSE IF edition = "cpp" /\ PageBeyond(root_page, header.file_pages)
           THEN RootFail(<< Msg("RootPageBeyond", page) >>)
           ELSE IF ~ReadOk(File, PagePosition(root_page, header.page_size), to_read)
           THEN RootFail(<< Msg("FailedReadRootPage", page) >>)
           ELSE /\ root_size' = U32(root_size - to_read)
                /\ copied' = copied + to_read
                /\ lastCopy' = [off |-> page * header.page_size, len |-> to_read,
                                cap |-> header.root_size]
                /\ page' = page + 1
                /\ UNCHANGED << root_pages, root_alloc, out, pc >>
    /\ UNCHANGED << edition, argv, idx, header, file_open, root_count, identity,
                    dirLocals, streamLocals, tainted, trace >>

\* _root_stream->count lies in bytes 0..1 of the root buffer
CountRead(f, rs) == IF rs >= 2 THEN {f.count} ELSE {0, f.count, AllOnes16}

\* open_root_stream after the loop, then the set-up of the directory loop
RootEnd ==
    /\ pc = "root_loop" /\ ~Below(page, root_pages)
    /\ IF root_size # 0
       THEN /\ RootFail(<< Msg("InconsistentRootRead", 0) >>)
            /\ UNCHANGED << root_count, dirLocals >>
       ELSE \E c \in CountRead(File, header.root_size) :
              IF CountTooLarge(c, header.root_size)
              THEN /\ RootFail(<< Msg("InconsistentRootSize", 0) >>)
                   /\ UNCHANGED << root_count, dirLocals >>
              ELSE /\ root_count' = c
                   /\ total_pages' = 0
                   /\ entry' = 0
                   /\ pc' = "dir_loop"
                   /\ UNCHANGED << root_alloc, rootLocals, page, copied, lastCopy, out >>
    /\ UNCHANGED << edition, argv, idx, header, file_open, identity,
                    streamLocals, tainted, trace >>

\* what happened to directory entry e: kind is "absent" (no pages), "failed"
\* (materialization gave up), "dispatched" (handed to its decoder) or
\* "printed" (C edition); first is where its page-index slice starts, in
\* bytes from the start of the flat run; the identity state is the one the
\* decoder finds; layout is the header layout the debug-info decoder took
Ev(kind, e, p, firstByte, n) ==
    [ev |-> kind, file |-> idx, entry |-> e, pages |-> p, first |-> firstByte,
     bytes |-> n, ver |-> pdb_version, gs |-> gs_stream, ps |-> ps_stream,
     sym |-> sym_stream, layout |-> "none"]

\* ++entry of the directory loop
NextEntry(e) == U16(e + 1)

\* a slice pointer moved by total_pages bytes instead of total_pages entries
SliceStart_Bytes(total) == total

\* pages_list + total_pages, as a byte offset into the flat run (uint16_t *)
SliceStart(total) == 2 * total

\* the end of one directory-loop iteration: total_pages += pages; ++entry
Advance(p) ==
    /\ total_pages' = U32(total_pages + p)
    /\ entry' = NextEntry(entry)
    /\ pc' = "dir_loop"

\* extract_pdb: one directory entry, and read_stream up to its page loop
DirEntry ==
    /\ edition = "cpp" /\ pc = "dir_loop" /\ entry < root_count
    /\ LET size == StreamSize(File, entry)
           p == StreamPages(size, header.page_size)
       IN  IF p = 0
           THEN /\ Advance(p)
                /\ trace' = Append(trace, Ev("absent", entry, p, SliceStart(total_pages), 0))
                /\ UNCHANGED << streamLocals, page, copied, lastCopy >>
           ELSE /\ pages' = p
                /\ stream_size' = size
                /\ page' = 0
                /\ copied' = 0
                /\ lastCopy' = NoCopy
                /\ pc' = "stream_loop"
                /\ UNCHANGED << dirLocals, trace >>
    /\ tainted' = FALSE
    /\ UNCHANGED << edition, argv, idx, header, file_open, root_alloc, root_count,
                    identity, rootLocals, out >>

\* goto leave: the buffer is deleted and the directory loop goes on
StreamFail(lines) ==
    /\ out' = Say(lines)
    /\ Advance(pages)
    /\ trace' = Append(trace, Ev("failed", entry, pages, SliceStart(total_pages), copied))
    /\ pages' = 0
    /\ stream_size' = 0
    /\ page' = 0
    /\ UNCHANGED << copied, lastCopy >>

\* read_stream: one iteration of the loop over the stream's page indices
StreamPage ==
    /\ pc = "stream_loop" /\ Below(page, pages)
    /\ LET k == total_pages + page
           inside == PlistInside(root_count, k, header.root_size)
           to_read == ToRead(header.page_size, stream_size)
       IN  /\ tainted' = (tainted \/ ~inside)
           /\ \E stream_page \in (IF inside THEN {PlistEntry(File, k)} ELSE AnyPage) :
                IF PageBeyond(stream_page, header.file_pages)
                THEN StreamFail(<< Msg("StreamPageBeyond", page) >>)
                ELSE IF ~ReadOk(File, PagePosition(stream_page, header.page_size), to_read)
                THEN StreamFail(<< Msg("FailedReadStreamPage", page) >>)
                ELSE /\ stream_size' = U32(stream_size - to_read)
                     /\ copied' = copied + to_read
                     /\ lastCopy' = [off |-> page * header.page_size, len |-> to_read,
                                     cap |-> StreamSize(File, entry)]
                     /\ page' = page + 1
                     /\ UNCHANGED << pages, dirLocals, out, pc, trace >>
    /\ UNCHANGED << edition, argv, idx, header, file_open, root_alloc, root_count,
                    identity, rootLocals >>

\* read_stream after the loop: the switch over stream_index, then leave
Dispatch ==
    /\ pc = "stream_loop" /\ ~Below(page, pages)
    /\ LET size == StreamSize(File, entry)
       IN  \E c1 \in (IF tainted THEN AnyS1 ELSE {File.s1}),
              c3 \in (IF tainted THEN AnyS3 ELSE {File.s3}) :
             LET r1 == read_stream_pdb_header_t(size, c1, pdb_version)
                 r3 == read_stream_dbi(size, c3, pdb_version, gs_stream, ps_stream,
                                       sym_stream)
             IN  /\ out' = Say(CASE entry = type_root_t ->
                                      read_stream_root_t(size, header.root_size)
                                 [] entry = type_pdb_header_t -> r1.out
                                 [] entry = type_tpi -> read_stream_tpi(size, File.s2)
                                 [] entry = type_dbi -> r3.out
                                 [] entry = type_fpo -> read_stream_fpo
                                 [] OTHER -> SymbolRole(entry, root_count, gs_stream,
                                                        ps_stream, sym_stream))
                 /\ pdb_version' = IF entry = type_pdb_header_t THEN r1.ver
                                                               ELSE pdb_version
                 /\ gs_stream' = IF entry = type_dbi THEN r3.gs ELSE gs_stream
                 /\ ps_stream' = IF entry = type_dbi THEN r3.ps ELSE ps_stream
                 /\ sym_stream' = IF entry = type_dbi THEN r3.sym ELSE sym_stream
                 /\ trace' = Append(trace,
                        [Ev("dispatched", entry, pages, SliceStart(total_pages), copied)
                           EXCEPT !.layout = IF entry = type_dbi THEN r3.layout ELSE @])
    /\ Advance(pages)
    /\ pages' = 0
    /\ stream_size' = 0
    /\ page' = 0
    /\ UNCHANGED << edition, argv, idx, header, file_open, root_alloc, root_count,
                    rootLocals, copied, lastCopy, tainted >>

\* the directory loop is over: extract_pdb returns
DirEnd ==
    /\ pc = "dir_loop" /\ entry >= root_count
    /\ pc' = GiveUp
    /\ UNCHANGED << edition, argv, idx, header, file_open, root_alloc, root_count,
                    identity, rootLocals, page, dirLocals, streamLocals, out, ghosts >>

\* pdb_file_t::~pdb_file_t at the end of main's loop body, then ++idx
Destroy ==
    /\ edition = "cpp" /\ pc = "destroy"
    /\ file_open' = FALSE
    /\ root_alloc' = FALSE
    /\ idx' = idx + 1
    /\ pc' = "main"
    /\ UNCHANGED << edition, argv, header, root_count, identity, rootLocals, page,
                    dirLocals, streamLocals, out, ghosts >>

\* main returns 0 once every argument was processed
Exit ==
    /\ pc = "main" /\ idx > Len(argv)
    /\ pc' = "exit"
    /\ UNCHANGED << edition, argv, idx, header, file_open, root_alloc, root_count,
                    identity, rootLocals, page, dirLocals, streamLocals, out, ghosts >>

\* ----------------------------------------------------- C edition, its own
\* pages of a directory entry: the free sentinel is not special
C_StreamPages(size, page_size) ==
    IF size = 0 THEN 0 ELSE U32(DivPage(size, page_size) + 1)

\* (uint16_t *)((char *)pages_list + total_pages): a byte offset
C_SliceStart(total) == total

\* extract_pdb and read_stream of the C edition: print the entry
C_DirEntry ==
    /\ edition = "c" /\ pc = "dir_loop" /\ entry < root_count
    /\ LET size == StreamSize(File, entry)
           p == C_StreamPages(size, header.page_size)
       IN  /\ out' = Say(<< Msg("StreamSize", size), Msg("StreamPages", p) >> \o
                         (IF p = 0 THEN << >>
                          ELSE << Msg("StreamPagesListAt", C_SliceStart(total_pages)) >>))
           /\ trace' = Append(trace, Ev("printed", entry, p, C_SliceStart(total_pages), 0))
           /\ total_pages' = U32(total_pages + p)
           /\ entry' = entry + 1
    /\ UNCHANGED << edition, argv, idx, pc, header, file_open, root_alloc, root_count,
                    identity, rootLocals, page, streamLocals, copied, lastCopy, tainted >>

\* leave: of the C edition's extract_pdb, then main's ++idx
C_Leave ==
    /\ edition = "c" /\ pc = "leave"
    /\ file_open' = FALSE
    /\ root_alloc' = FALSE
    /\ idx' = idx + 1
    /\ pc' = "main"
    /\ UNCHANGED << edition, argv, header, root_count, identity, rootLocals, page,
                    dirLocals, streamLocals, out, ghosts >>

Next ==
    \/ Construct
    \/ ExtractOpen
    \/ ValidateHeader
    \/ RootBegin
    \/ RootPage
    \/ RootEnd
    \/ DirEntry
    \/ StreamPage
    \/ Dispatch
    \/ DirEnd
    \/ Destroy
    \/ Exit
    \/ C_DirEntry
    \/ C_Leave

Spec == Init /\ [][Next]_vars

\* ------------------------------------------------------------------ claims
Last(q) == q[Len(q)]
Lines(i) == { out[i][k].m : k \in 1..Len(out[i]) }
Events(i) == { k \in 1..Len(trace) : trace[k].file = i }

\* the root loop of the current file was begun and gave up with bytes of the
\* declared size still to copy
RootCameShort ==
    /\ idx <= Len(argv) /\ pc = GiveUp
    /\ root_pages # 0 /\ root_size # 0

RootLoopDone == pc = "root_loop" /\ ~Below(page, root_pages)

\* C1 (as amended): while the root is rebuilt, the bytes copied and the bytes
\* still to copy add up to the declared root size, so a loop that runs to
\* completion has copied the declared size exactly (remaining == 0); the
\* 'Inconsistent root stream read' diagnostic is never printed: a run that
\* stops short of the declared size stops inside the loop with one of its
\* read or page-bound diagnostics, and no stream of that file is looked at.
C1_RootCopiedExactly ==
    /\ pc = "root_loop" => root_size >= 0 /\ copied + root_size = header.root_size
    /\ RootLoopDone => root_size = 0 /\ copied = header.root_size
    /\ \A i \in 1..Len(argv) : "InconsistentRootRead" \notin Lines(i)
    /\ RootCameShort =>
         /\ Last(out[idx]).m \in {"FailedReadRootSlot", "RootPageBeyond",
                                  "FailedReadRootPage"}
         /\ Events(idx) = {}

\* a root of 1030 bytes rebuilt from two pages
C1_Witness == RootLoopDone /\ copied = 1030 /\ page = 2

\* C1 as stated: a run that under-covers the declared size ends in the
\* 'Inconsistent root stream read' diagnostic
C1_Original ==
    /\ RootLoopDone => root_size = 0 /\ copied = header.root_size
    /\ RootCameShort => Last(out[idx]).m = "InconsistentRootRead"

\* page p is inside the file and all of its bytes are there
PageBacked(f, p) == p <= f.file_pages /\ (p + 1) * f.page_size <= f.st_size

\* every page index of the slice of event e lies in the root buffer and
\* names a backed page
SliceBacked(f, e) ==
    \A j \in 0..(e.pages - 1) :
        LET k == e.first \div 2 + j
        IN  PlistInside(f.count, k, f.root_size) /\ PageBacked(f, PlistEntry(f, k))

Real(size) == size # 0 /\ size # AllOnes32

\* C2: in a well-formed container (every page index in range and backed by
\* file data) every stream with declared size > 0, a multiple of the page
\* size included, is materialized with bytes copied == declared size and
\* then dispatched; so are the 10-byte and the 4096-byte stream of a
\* two-stream directory with page size 1024.
C2_RoundTrip ==
    edition = "cpp" =>
        \A k \in 1..Len(trace) :
            LET e == trace[k]
                f == argv[e.file]
                size == StreamSize(f, e.entry)
            IN  (Real(size) /\ SliceBacked(f, e)) =>
                    e.ev = "dispatched" /\ e.bytes = size

\* the step printed diagnostic m for the current file
Printed(m) ==
    /\ Len(out'[idx]) = Len(out[idx]) + 1
    /\ Last(out'[idx]).m = m

\* C3: in the C++ edition a page index p read from the root indirection list
\* or from a stream's page list is rejected with the 'beyond maximum page'
\* diagnostic if and only if p > file_pages: p == file_pages passes the bound
\* check, p == file_pages + 1 does not.
C3_PageBound ==
    [][ /\ ( /\ edition = "cpp" /\ pc = "root_loop" /\ Below(page, root_pages)
             /\ ReadOk(File, RootSlotOffset(page), 2) )
           => (Printed("RootPageBeyond") <=> RootSlot(File, page) > header.file_pages)
        /\ ( /\ edition = "cpp" /\ pc = "stream_loop" /\ Below(page, pages)
             /\ PlistInside(root_count, total_pages + page, header.root_size) )
           => (Printed("StreamPageBeyond")
                 <=> PlistEntry(File, total_pages + page) > header.file_pages) ]_vars

\* a stream was materialized through the page index file_pages itself
C3_Witness ==
    /\ edition = "cpp"
    /\ \E k \in 1..Len(trace) :
         /\ trace[k].ev = "dispatched"
         /\ PlistEntry(argv[trace[k].file], trace[k].first \div 2)
              = argv[trace[k].file].file_pages

\* validate_header has returned for file argument i
Validated(i) == i < idx \/ (i = idx /\ pc \notin {"main", "extract", "validate"})

\* file argument i opens and has a valid signature, page size and start page
UpToPageCount(f) ==
    /\ f.exists /\ f.st_size >= PDB_SIGNATURE_200_SIZE + SizeofHeader /\ f.sigOk
    /\ f.page_size \in {1024, 2048, 4096}
    /\ f.start_page \in {2, 5, 9}

\* C4: given a valid signature, page size and start page, validate_header
\* accepts the header only if (file_size div page_size) mod 2^16 equals
\* file_pages; otherwise it reports the page-count mismatch and nothing else,
\* the file is abandoned, and main still goes through the later arguments.
C4_PageCount ==
    /\ \A i \in 1..Len(argv) :
         (Validated(i) /\ UpToPageCount(argv[i])) =>
            IF (argv[i].st_size \div argv[i].page_size) % Two16 = argv[i].file_pages
            THEN "InvalidNumberOfPages" \notin Lines(i)
            ELSE /\ out[i] = << Msg("InvalidNumberOfPages", 0) >>
                 /\ Events(i) = {}
    /\ pc = "exit" => idx = Len(argv) + 1

\* the first file failed the page-count check, the second was then processed
\* and so was the third
C4_Witness ==
    /\ pc = "exit"
    /\ out[1] = << Msg("InvalidNumberOfPages", 0) >>
    /\ out[2] # << >>
    /\ out[3] = out[1]

\* C5: in the C++ edition a directory entry whose declared size is 0 or the
\* free sentinel 0xFFFFFFFF, whatever its index, gets 0 pages, consumes no
\* entry of the flat page-index run, has no buffer filled, prints nothing and
\* reaches no decoder: the loop just moves on to the next entry.
C5_AbsentStream ==
    [][ ( /\ edition = "cpp" /\ pc = "dir_loop" /\ entry < root_count
          /\ StreamSize(File, entry) \in {0, AllOnes32} )
        => /\ Len(trace') = Len(trace) + 1
           /\ Last(trace') = Ev("absent", entry, 0, 2 * total_pages, 0)
           /\ total_pages' = total_pages
           /\ entry' = entry + 1
           /\ pc' = "dir_loop"
           /\ out' = out
           /\ UNCHANGED << identity, copied, lastCopy, streamLocals >> ]_vars

\* the debug-info entry (index 3) is free; the entry after it is
\* materialized from the slice the free one left untouched
C5_Witness ==
    /\ edition = "cpp"
    /\ \E k \in 1..Len(trace), l \in 1..Len(trace) :
         /\ trace[k].ev = "absent" /\ trace[k].entry = type_dbi
         /\ StreamSize(argv[trace[k].file], type_dbi) = AllOnes32
         /\ trace[l].file = trace[k].file /\ trace[l].entry = type_dbi + 1
         /\ trace[l].ev = "dispatched" /\ trace[l].first = trace[k].first

SymbolLines == {"GlobalSymbolsFound", "PrivateSymbolsFound", "SymbolsFound"}

\* event e: the debug-info stream of its file was materialized from pages the
\* file names and holds, and carries signature 0
DbiSignatureZero(e) ==
    /\ edition = "cpp" /\ e.ev = "dispatched" /\ e.entry = type_dbi
    /\ SliceBacked(argv[e.file], e)
    /\ argv[e.file].s3.signature = 0

\* the decoder turned the signature down and nothing of the file was, or will
\* be, reported as a symbols stream
DbiTurnedDown(e) ==
    /\ Msg("DbiInvalidSignature", 0) \in { out[e.file][k] : k \in 1..Len(out[e.file]) }
    /\ Lines(e.file) \cap SymbolLines = {}
    /\ e.file = idx =>
         gs_stream = AllOnes16 /\ ps_stream = AllOnes16 /\ sym_stream = AllOnes16

\* C6 (as amended): for every file whose recorded epoch is newer than
\* pdb_version_4 and whose debug-info stream (index 3) is materialized with
\* at least sizeof(dbi_header_t) declared bytes and carries signature
\* 0x00000000: the decoder reports an invalid signature and leaves the three
\* symbol-stream indices all-ones, so no later stream of the file is
\* reported as a global, private or public symbols stream.
C6_DbiBadSignature ==
    \A k \in 1..Len(trace) :
        ( /\ DbiSignatureZero(trace[k])
          /\ trace[k].ver > pdb_version_4
          /\ StreamSize(argv[trace[k].file], type_dbi) >= SizeofDbiHeader )
        => DbiTurnedDown(trace[k])

\* such a file, with streams 6 and 7 looked up after the decoder returned
C6_Witness ==
    \E k \in 1..Len(trace), l \in 1..Len(trace) :
        /\ DbiSignatureZero(trace[k])
        /\ trace[k].ver > pdb_version_4
        /\ StreamSize(argv[trace[k].file], type_dbi) >= SizeofDbiHeader
        /\ trace[l].file = trace[k].file /\ trace[l].entry = 7
        /\ trace[l].ev = "dispatched"
        /\ trace[k].file = idx

\* C6 as stated: for every file whose debug-info stream is materialized and
\* carries signature 0
C6_Original ==
    \A k \in 1..Len(trace) : DbiSignatureZero(trace[k]) => DbiTurnedDown(trace[k])

\* page indices the directory of f needs for its first n streams
RECURSIVE SlotsUpTo(_, _)
SlotsUpTo(f, n) ==
    IF n = 0 THEN 0 ELSE SlotsUpTo(f, n - 1) + Slots(f.sizes[n], f.page_size)

\* every page index the directory of f needs lies inside its root stream
NoStrayRead(f) ==
    \A k \in 0..(SlotsUpTo(f, Len(f.sizes)) - 1) : PlistInside(f.count, k, f.root_size)

EventsOf(i) == SelectSeq(trace, LAMBDA e : e.file = i)
Renumbered(q, i) == [k \in 1..Len(q) |-> [q[k] EXCEPT !.file = i]]

\* C7: in the C++ edition every per-file session starts from the same state
\* (epoch = pdb_version_2, the three symbol-stream indices all-ones, no root
\* buffer, no open file), whatever the sessions before it did; and a file
\* processed twice, with any other file in between, prints the same
\* diagnostics both times and its decoders find the same identity state.
C7_SessionIsolation ==
    edition = "cpp" =>
        /\ pc = "extract" =>
             /\ pdb_version = pdb_version_2
             /\ gs_stream = AllOnes16 /\ ps_stream = AllOnes16 /\ sym_stream = AllOnes16
             /\ ~root_alloc /\ ~file_open /\ root_count = 0
        /\ (pc = "exit" /\ argv[1] = argv[3] /\ NoStrayRead(argv[1])) =>
             /\ out[3] = out[1]
             /\ Renumbered(EventsOf(3), 1) = EventsOf(1)

\* a file with eight streams and a rejected debug-info stream was processed
\* before and after a file whose debug-info stream names streams 6 and 7
C7_Witness ==
    /\ edition = "cpp" /\ pc = "exit" /\ argv[1] = argv[3] /\ NoStrayRead(argv[1])
    /\ "GlobalSymbolsFound" \in Lines(2)
    /\ "DbiInvalidSignature" \in Lines(3)
    /\ out[3] = out[1]
    /\ \E k \in 1..Len(trace) :
         trace[k].file = 3 /\ trace[k].entry = 6 /\ trace[k].ev = "dispatched"

\* the five validations of the header, in the order of the claim
HeaderOrder ==
    << "InvalidSignature", "InvalidPageSize", "InvalidStartPage",
       "InvalidNumberOfPages", "RootStreamFree" >>

HeaderFails(f) ==
    << ~f.sigOk,
       f.page_size \notin {1024, 2048, 4096},
       f.start_page \notin {2, 5, 9},
       (f.st_size \div f.page_size) % Two16 # f.file_pages,
       f.root_size = AllOnes32 >>

RootLines ==
    {"InvalidRootPages", "FailedReadRootSlot", "RootPageBeyond", "FailedReadRootPage",
     "InconsistentRootRead", "InconsistentRootSize"}

\* C8: validate_header checks signature, page size, start page, page count
\* and free root stream in this order and stops at the first failing check,
\* whose diagnostic is the only one the file gets (a corrupted signature
\* gives the signature diagnostic alone); after a header or a
\* root-reconstruction failure no stream of the file is materialized or
\* dispatched, and main goes on with the next argument.
C8_FirstFailureOnly ==
    /\ \A i \in 1..Len(argv) :
         LET f == argv[i]
             bad == {j \in 1..5 : HeaderFails(f)[j]}
         IN  (Validated(i) /\ f.exists /\ f.st_size >= PDB_SIGNATURE_200_SIZE + SizeofHeader)
             => /\ \A j \in bad :
                     (\A h \in bad : j <= h) =>
                        out[i] = << Msg(HeaderOrder[j], 0) >> /\ Events(i) = {}
                /\ bad = {} => Lines(i) \cap {HeaderOrder[j] : j \in 1..5} = {}
                /\ Lines(i) \cap RootLines # {} => Len(out[i]) = 1 /\ Events(i) = {}
    /\ pc = "exit" => idx = Len(argv) + 1 /\ ~file_open /\ ~root_alloc

\* the first file has a corrupted signature and a bad page size, start page
\* and page count as well; the second file was processed after it
C8_Witness ==
    /\ pc = "exit"
    /\ \A j \in 1..5 : HeaderFails(argv[1])[j]
    /\ out[1] = << Msg("InvalidSignature", 0) >>
    /\ Len(out[2]) > 1

\* entry n of file argument i reached its decoder
Dispatched(i, n) ==
    \E k \in 1..Len(trace) :
        trace[k].file = i /\ trace[k].entry = n /\ trace[k].ev = "dispatched"

\* the epoch on record once entry 1 of file argument i is behind
EpochOf(i) ==
    IF Dispatched(i, type_pdb_header_t)
       /\ StreamSize(argv[i], type_pdb_header_t) >= SizeofStreamHeader
    THEN argv[i].s1.version
    ELSE pdb_version_2

Unset == << AllOnes16, AllOnes16, AllOnes16 >>

\* the three indices on record once entry 3 of file argument i is behind
IndicesOf(i) ==
    LET size == StreamSize(argv[i], type_dbi)
        c == argv[i].s3
    IN  IF ~Dispatched(i, type_dbi) THEN Unset
        ELSE IF EpochOf(i) > pdb_version_4
        THEN IF size >= SizeofDbiHeader /\ c.signature = AllOnes32
             THEN << c.global_symbols_stream, c.private_symbols_stream, c.symbols_stream >>
             ELSE Unset
        ELSE IF size >= SizeofOldDbiHeader
             THEN << c.signature % Two16, (c.signature \div Two16) % Two16,
                     c.version % Two16 >>
             ELSE Unset

\* C9: in the C++ edition the entries of one file are taken in ascending
\* index order, one after the other and each once; every entry past index 1
\* finds the epoch that the decoder of index 1 left (index 3 reads it), every
\* entry past index 3 finds the three indices that the decoder of index 3
\* left (the default case reads them), and no entry finds anything a later
\* entry wrote.
C9_AscendingOrder ==
    edition = "cpp" =>
        \A i \in 1..Len(argv) :
            LET q == EventsOf(i)
            IN  /\ \A k \in 1..Len(q) : q[k].entry = k - 1
                /\ NoStrayRead(argv[i]) =>
                     \A k \in 1..Len(q) :
                        /\ q[k].ver = IF q[k].entry <= type_pdb_header_t
                                      THEN pdb_version_2 ELSE EpochOf(i)
                        /\ << q[k].gs, q[k].ps, q[k].sym >> =
                              IF q[k].entry <= type_dbi THEN Unset ELSE IndicesOf(i)

\* index 1 recorded an epoch other than the initial one, index 3 then stored
\* indices under it, and index 6 was then reported as the global symbols
C9_Witness ==
    /\ edition = "cpp" /\ idx = 1 /\ NoStrayRead(argv[1])
    /\ Dispatched(1, type_pdb_header_t) /\ EpochOf(1) = pdb_version_7
    /\ Dispatched(1, type_dbi) /\ IndicesOf(1) = << 6, 7, AllOnes16 >>
    /\ Dispatched(1, 7)
    /\ "GlobalSymbolsFound" \in Lines(1)

\* the debug-info decoder of the current file has just returned; e is its event
DbiJustDecoded(e) ==
    /\ edition = "cpp" /\ pc = "dir_loop" /\ entry = type_dbi + 1
    /\ e.file = idx /\ e.entry = type_dbi /\ e.ev = "dispatched"
    /\ SliceBacked(argv[idx], e)

Stored == << gs_stream, ps_stream, sym_stream >>

\* what the decoder leaves behind when it reads the stream as the new layout
\* (newer) or as the legacy 3-field one
DbiOutcome(e, newer) ==
    LET size == StreamSize(argv[idx], type_dbi)
        c == argv[idx].s3
    IN  IF newer
        THEN /\ e.layout = "new"
             /\ (size >= SizeofDbiHeader /\ c.signature = AllOnes32) =>
                   Stored = << c.global_symbols_stream, c.private_symbols_stream,
                               c.symbols_stream >>
             /\ (size < SizeofDbiHeader \/ c.signature # AllOnes32) => Stored = Unset
        ELSE /\ e.layout = "old"
             /\ size >= SizeofOldDbiHeader =>
                   Stored = << c.signature % Two16, (c.signature \div Two16) % Two16,
                               c.version % Two16 >>
             /\ size < SizeofOldDbiHeader => Stored = Unset

\* C10 (as amended): the debug-info decoder (index 3) selects its header
\* layout by the epoch recorded at index 1: for every epoch greater than
\* pdb_version_4 (19950623) it uses the new header layout (minimum size of
\* the new header, signature must equal 0xFFFFFFFF), and for every epoch up
\* to and including pdb_version_4, the earliest epoch pdb_version_2 among
\* them, the legacy 3-field header; in both branches, once the size (and
\* signature) checks pass, the three symbol-stream indices of that layout are
\* stored into the shared identity state.
C10_DbiLayout ==
    \A k \in 1..Len(trace) :
        DbiJustDecoded(trace[k]) => DbiOutcome(trace[k], trace[k].ver > pdb_version_4)

\* epoch pdb_version_4 on record: the stream was read as the legacy header
\* and its first three 16-bit words were stored
C10_Witness ==
    \E k \in 1..Len(trace) :
        /\ DbiJustDecoded(trace[k])
        /\ trace[k].ver = pdb_version_4
        /\ trace[k].layout = "old"
        /\ Stored = << 6, 7, 7 >>

\* C10 as stated: the new layout for every epoch after pdb_version_2
C10_Original ==
    \A k \in 1..Len(trace) :
        DbiJustDecoded(trace[k]) => DbiOutcome(trace[k], trace[k].ver > pdb_version_2)

\* ceil(size / page_size) of an unsigned 32-bit size
CeilPages(size, page_size) ==
    DivPage(size, page_size) + (IF size % page_size = 0 THEN 0 ELSE 1)

\* the directory entries the C++ edition has gone through
CppEvents == { k \in 1..Len(trace) : trace[k].ev \in {"absent", "failed", "dispatched"} }

\* C11: for every directory entry and every page size in {1024, 2048, 4096}
\* the number of pages assigned to a stream, which is the number of page
\* indices it takes from the flat page-index run, is ceil(declared_size /
\* page_size) when the declared size is neither 0 nor the free sentinel
\* 0xFFFFFFFF, and 0 pages otherwise.
C11_CeilPages ==
    \A k \in CppEvents :
        LET e == trace[k]
            f == argv[e.file]
            size == StreamSize(f, e.entry)
        IN  /\ f.page_size \in {1024, 2048, 4096}
            /\ e.pages = IF Real(size) THEN CeilPages(size, f.page_size) ELSE 0
            /\ k < Len(trace) /\ trace[k + 1].file = e.file =>
                   trace[k + 1].first = e.first + 2 * e.pages

\* floor(size / page_size) + 1, and 0 for an empty or free stream
PagesOf(size, page_size) ==
    IF Real(size) THEN DivPage(size, page_size) + 1 ELSE 0

\* sum over j < k of the pages of stream j in the directory of f
RECURSIVE PagesBefore(_, _)
PagesBefore(f, k) ==
    IF k = 0 THEN 0
    ELSE PagesBefore(f, k - 1) + PagesOf(StreamSize(f, k - 1), f.page_size)

\* C12: in the C++ edition's directory loop stream k is handed the slice of
\* the flat page-index run that starts at entry index sum over j < k of
\* pages(j) and holds pages(k) entries, with pages(j) = floor(size_j /
\* page_size) + 1 for a size that is neither 0 nor 0xFFFFFFFF and 0 otherwise;
\* the streams are gone through in index order, none skipped; a stream whose
\* materialization fails ends there, the loop goes on with the next stream,
\* and every later slice starts where it would have started had the stream
\* succeeded.
C12_SliceWalk ==
    edition = "cpp" =>
        /\ \A k \in 1..Len(trace) :
              LET e == trace[k]
                  f == argv[e.file]
              IN  /\ e.pages = PagesOf(StreamSize(f, e.entry), f.page_size)
                  /\ e.first = 2 * PagesBefore(f, e.entry)
        /\ \A i \in 1..Len(argv) :
              LET q == EventsOf(i)
              IN  \A n \in 1..Len(q) : q[n].entry = n - 1
        /\ pc \in {"dir_loop", "stream_loop"} =>
              /\ entry = Len(EventsOf(idx))
              /\ total_pages = PagesBefore(File, entry)
              /\ (entry > 0 /\ pc = "dir_loop") => Last(trace).entry = entry - 1

\* a 1024-byte stream fails on its second page and the stream after it is
\* materialized from the third entry of the run
C12_Witness ==
    \E k \in 1..(Len(trace) - 1) :
        /\ trace[k].ev = "failed" /\ trace[k].entry = 0 /\ trace[k].pages = 2
        /\ trace[k + 1].file = trace[k].file
        /\ trace[k + 1].ev = "dispatched" /\ trace[k + 1].entry = 1
        /\ trace[k + 1].first = 4

\* C13: every page index read_stream reads from its slice lies inside the
\* reconstructed root buffer: for every root directory open_root_stream
\* accepted and every stream k with pages(k) > 0, 4 + 8 * count + 2 * (sum
\* over j <= k of pages(j)) <= declared root stream size, so no read of
\* pages_list[page] goes past the end of the root bytes.
C13_PageListInside ==
    (edition = "cpp" /\ pc = "stream_loop") =>
        /\ ~Above(DirBytes(root_count, total_pages + pages), header.root_size)
        /\ ~tainted

\* the bytes the copy of loop iteration p targets in a buffer of which
\* remaining bytes are still to fill: [off, off + len)
CopyTarget(p, page_size, remaining) ==
    [off |-> p * page_size,
     len |-> IF Above(page_size, remaining) THEN remaining ELSE page_size]

\* a page loop over a buffer of declared bytes, at iteration p of n, with
\* remaining bytes still to copy: the bytes still to copy never exceed the
\* declared size, the copy about to be made and the copy just made stay
\* inside the buffer
LoopInside(p, n, declared, remaining) ==
    LET ps == header.page_size
        next == CopyTarget(p, ps, remaining)
    IN  /\ ps \in {1024, 2048, 4096}
        /\ declared # 0
        /\ n = DivPage(declared, ps) + 1
        /\ ~Above(remaining, declared)
        /\ copied + remaining = declared
        /\ Below(p, n) => ~Above(next.off + next.len, declared)
        /\ p > 0 =>
              /\ lastCopy.off = CopyTarget(p - 1, ps, remaining + lastCopy.len).off
              /\ lastCopy.len = CopyTarget(p - 1, ps, remaining + lastCopy.len).len
              /\ lastCopy.cap = declared
              /\ ~Above(lastCopy.off + lastCopy.len, lastCopy.cap)

\* C14: every copy into the root buffer (both editions) or into a stream
\* buffer (C++ edition) stays inside the buffer allocated with the declared
\* size: at loop iteration p the copy targets bytes [p * page_size,
\* p * page_size + to_read) with to_read = min(page_size, remaining), and
\* p * page_size + to_read <= declared_size for every page size in {1024,
\* 2048, 4096}, every declared size > 0 and every p < floor(declared_size /
\* page_size) + 1; remaining never underflows below 0.
C14_CopiesInside ==
    /\ pc = "root_loop" => LoopInside(page, root_pages, header.root_size, root_size)
    /\ pc = "stream_loop" =>
          LoopInside(page, pages, StreamSize(File, entry), stream_size)

\* the second page of a 4097-byte stream at page size 4096: one byte
C14_Witness ==
    /\ pc = "stream_loop" /\ page = 2
    /\ lastCopy = [off |-> 4096, len |-> 1, cap |-> 4097]

\* total_pages of each edition when its directory loop reaches entry k of f
RECURSIVE CppTotal(_, _)
CppTotal(f, k) ==
    IF k = 0 THEN 0
    ELSE U32(CppTotal(f, k - 1) + StreamPages(StreamSize(f, k - 1), f.page_size))

RECURSIVE C_Total(_, _)
C_Total(f, k) ==
    IF k = 0 THEN 0
    ELSE U32(C_Total(f, k - 1) + C_StreamPages(StreamSize(f, k - 1), f.page_size))

\* C15: the C edition and the C++ edition implement the same directory walk:
\* for every accepted root directory and page size both give each stream the
\* same page count and the same starting position of its page-index slice
\* in the flat page-index run, so the page list the C edition prints for
\* stream k is the slice the C++ edition materializes stream k from.
C15_SameWalk ==
    \A k \in 1..Len(trace) :
        LET e == trace[k]
            f == argv[e.file]
            size == StreamSize(f, e.entry)
        IN  /\ e.pages = StreamPages(size, f.page_size)
            /\ e.pages = C_StreamPages(size, f.page_size)
            /\ e.pages > 0 =>
                  /\ e.first = SliceStart(CppTotal(f, e.entry))
                  /\ e.first = C_SliceStart(C_Total(f, e.entry))

====
